---------------------------- MODULE Spec2Model ----------------------------
(***************************************************************************)
(* A model of script.js of MEDI-REMINDER: the API client (apiRequest), the *)
(* medication time formatter (formatTime), the alarm poller and audio      *)
(* alerter (checkMedicationAlarms, playAlarmSound, stopAlarmAndRedirect,   *)
(* stopAlarmOnly, updateCurrentAlarmStatus) and the calendar widget        *)
(* (CalendarManager).                                                      *)
(*                                                                         *)
(* Strings whose characters the code inspects (times of day) are sequences *)
(* of one-character strings; messages are TLA+ strings.  JSON values are   *)
(* tagged records.  The page's script state (module-level variables,       *)
(* timers, awaiting continuations) is lost on navigation; localStorage and *)
(* the server's alarms persist.                                            *)
(***************************************************************************)
EXTENDS Integers, Sequences, FiniteSets, TLC

VARIABLES
    \* ---- browser storage and remote API state ----
    access_token,    \* localStorage 'access_token' is set
    currentAlarm,    \* localStorage 'currentAlarm'
    serverAlarms,    \* the alarm list the API serves, in list order
    \* ---- wall clock and the poller ----
    clock,           \* local time of day, in seconds
    ticks,           \* poll-timer firings so far
    polls,           \* checkMedicationAlarms calls awaiting apiRequest('/alarms')
    \* ---- page and script state ----
    audioContext,    \* module variable audioContext is non-null
    isAlarmPlaying,  \* module variable isAlarmPlaying
    alarmInterval,   \* module variable alarmInterval: a timer id, or 0 for null
    timers,          \* interval timers scheduleBeeps is registered on and not cleared
    acks,            \* updateCurrentAlarmStatus calls awaiting apiRequest(PUT)
    \* ---- what the last step did (observation only) ----
    ev,
    trigCount,       \* idle->ringing transitions since the clock entered this minute
    trigIds,         \* ids of the alarms those transitions were for
    served,          \* polls started in this minute that resumed with an alarm list
    \* ---- apiRequest, formatTime ----
    apiIn, apiOut,
    fmtIn, fmtOut,
    \* ---- CalendarManager ----
    today,           \* the date new Date() gives during this page's life
    currentDate, selectedDate,
    monthHeader, grid, schedule,   \* the calendar's part of the document
    calOp            \* the calendar operation the last step ran (observation only)

alarmVars == <<access_token, currentAlarm, serverAlarms, clock, ticks, polls,
               audioContext, isAlarmPlaying, alarmInterval, timers, acks, ev, trigCount,
               trigIds, served>>
apiVars == <<apiIn, apiOut>>
fmtVars == <<fmtIn, fmtOut>>
calVars == <<today, currentDate, selectedDate, monthHeader, grid, schedule, calOp>>
pureVars == <<apiVars, fmtVars, calVars>>
vars == <<alarmVars, pureVars>>

----------------------------------------------------------------------------
(* Bounds of the model *)

MaxTicks == 3
MaxPolls == 1
MaxAcks == 1
MaxTimers == 2
MaxDetail == 2
MaxMonthsAway == 4

----------------------------------------------------------------------------
(* Strings and numbers, as JavaScript formats and parses them *)

Digits == <<"0", "1", "2", "3", "4", "5", "6", "7", "8", "9">>

\* Number.prototype.toString for a non-negative integer: its decimal digits.
RECURSIVE NumToString(_)
NumToString(n) ==
    IF n < 10 THEN <<Digits[n + 1]>>
    ELSE NumToString(n \div 10) \o <<Digits[(n % 10) + 1]>>

\* String.prototype.padStart(2, '0').
PadStart2(s) == IF Len(s) >= 2 THEN s ELSE [i \in 1..(2 - Len(s)) |-> "0"] \o s

----------------------------------------------------------------------------
(* JSON values, response bodies and localStorage items *)

JNull == [type |-> "null"]
JStr(s) == [type |-> "string", s |-> s]
JArr(items) == [type |-> "array", items |-> items]
JObj(f) == [type |-> "object", f |-> f]

\* A response body: text that response.json() parses to a value, or rejects.
Unparsable == [parsable |-> FALSE]
JsonBody(v) == [parsable |-> TRUE, json |-> v]

\* JavaScript truthiness of a JSON value.
Truthy(v) == ~(v = JNull \/ v = JStr(""))

\* localStorage.getItem: null when the key is not set, else the stored text.
NoItem == [item |-> "none"]
GarbageText == [item |-> "garbage"]
JSONStringify(v) == [item |-> "json", v |-> v]
JSONParses(raw) == raw.item = "json"
JSONParse(raw) == raw.v

----------------------------------------------------------------------------
(* apiRequest *)

Threw(m) == [threw |-> TRUE, message |-> m]
Returned(v) == [threw |-> FALSE, value |-> v]

\* response.ok
ResponseOk(status) == status >= 200 /\ status <= 299

\* d => d.msg || d, as Array.prototype.join then renders it.
DetailEntry(d) ==
    IF d.type = "object" /\ "msg" \in DOMAIN d.f /\ Truthy(d.f.msg) THEN d.f.msg.s
    ELSE IF d.type = "string" THEN d.s
    ELSE IF d.type = "null" THEN ""
    ELSE "[object Object]"

\* Array.prototype.join(', ')
RECURSIVE JoinComma(_)
JoinComma(items) ==
    IF Len(items) = 0 THEN ""
    ELSE IF Len(items) = 1 THEN DetailEntry(items[1])
    ELSE DetailEntry(items[1]) \o ", " \o JoinComma(Tail(items))

\* The message of the Error thrown for a non-ok response.
ErrorMessage(response) ==
    LET fallback == "Request failed with status " \o ToString(response.status)
        data == response.body.json
    IN  IF ~response.body.parsable THEN fallback
        ELSE IF ~(Truthy(data) /\ data.type = "object" /\ "detail" \in DOMAIN data.f
                  /\ Truthy(data.f.detail)) THEN fallback
        ELSE IF data.f.detail.type = "array" THEN JoinComma(data.f.detail.items)
        ELSE IF data.f.detail.type = "string" THEN data.f.detail.s
        ELSE "[object Object]"

\* apiRequest without the case of 204.
ApiRequestWithout204(response) ==
    IF ~ResponseOk(response.status) THEN Threw(ErrorMessage(response))
    ELSE IF response.body.parsable THEN Returned(response.body.json)
    ELSE Threw("SyntaxError")

\* What apiRequest settles to once fetch has resolved with this response.
ApiRequest(response) ==
    IF ~ResponseOk(response.status) THEN Threw(ErrorMessage(response))
    ELSE IF response.status = 204 THEN Returned(JNull)
    ELSE IF response.body.parsable THEN Returned(response.body.json)
    ELSE Threw("SyntaxError")

----------------------------------------------------------------------------
(* The alarm poller and the audio alerter *)

PollPeriodSec == 10
SecondsPerDay == 24 * 60 * 60

Hours(t) == t \div 3600
Minutes(t) == (t \div 60) % 60

\* `${getHours().toString().padStart(2,'0')}:${getMinutes().toString().padStart(2,'0')}`
CurrentHHMM(t) ==
    PadStart2(NumToString(Hours(t))) \o <<":">> \o PadStart2(NumToString(Minutes(t)))

T0800 == <<"0", "8", ":", "0", "0">>
T0801 == <<"0", "8", ":", "0", "1">>
T801 == <<"8", ":", "0", "1">>

Alarm(id, time) == [id |-> id, scheduled_time |-> time]
AlarmWith(id, time, status) == [id |-> id, scheduled_time |-> time, status |-> status]

\* getAccessToken(), as the callers test it
GetAccessToken == access_token

\* IsDue without the test of the status.
IsDueWhateverStatus(a, currentHHMM) ==
    /\ a.type = "object"
    /\ "scheduled_time" \in DOMAIN a.f
    /\ a.f.scheduled_time = currentHHMM

\* a.scheduled_time === currentHHMM && (!a.status || a.status === 'upcoming')
IsDue(a, currentHHMM) ==
    /\ a.type = "object"
    /\ "scheduled_time" \in DOMAIN a.f
    /\ a.f.scheduled_time = currentHHMM
    /\ ("status" \notin DOMAIN a.f \/ a.f.status = "" \/ a.f.status = "upcoming")

\* alarms.find(...): the index of the first due alarm, 0 when there is none
FindDue(alarms, currentHHMM) ==
    LET hits == {i \in 1..Len(alarms) : IsDue(alarms[i], currentHHMM)}
    IN  IF hits = {} THEN 0 ELSE CHOOSE i \in hits : \A j \in hits : i <= j

NoArg == [none |-> TRUE]
NoPut == [issued |-> FALSE]
Put(id, status) == [issued |-> TRUE, id |-> id, status |-> status]
Event(op, nav, put, beep, arg) ==
    [op |-> op, nav |-> nav, put |-> put, beep |-> beep, arg |-> arg]

\* window.location.href = ...: the document is replaced (the script never reads the
\* location, ev.nav records the write); the script's module state starts again from
\* its initial values and its timers and awaiting continuations are gone.
Navigate ==
    /\ audioContext' = FALSE
    /\ isAlarmPlaying' = FALSE
    /\ alarmInterval' = 0
    /\ timers' = {}
    /\ polls' = {}
    /\ acks' = {}

StayOnPage == UNCHANGED <<audioContext, isAlarmPlaying, alarmInterval, timers>>

\* setInterval(checkMedicationAlarms, 10000) fires: the function runs up to its await.
CheckMedicationAlarms ==
    /\ ticks < MaxTicks
    /\ ticks' = ticks + 1
    /\ clock' = (clock + PollPeriodSec) % SecondsPerDay
    /\ trigCount' = IF Minutes(clock') = Minutes(clock) THEN trigCount ELSE 0
    /\ trigIds' = IF Minutes(clock') = Minutes(clock) THEN trigIds ELSE {}
    /\ served' = IF Minutes(clock') = Minutes(clock) THEN served ELSE 0
    /\ IF ~GetAccessToken
         THEN polls' = polls
         ELSE /\ Cardinality(polls) < MaxPolls
              /\ polls' = polls \cup {[at |-> clock', currentHHMM |-> CurrentHHMM(clock'),
                                      answered |-> FALSE]}
    /\ ev' = Event("checkMedicationAlarms", "", NoPut, FALSE, NoArg)
    /\ UNCHANGED <<access_token, currentAlarm, serverAlarms, acks>>
    /\ StayOnPage
    /\ UNCHANGED pureVars

AlarmList == JArr([i \in 1..Len(serverAlarms) |-> JObj(serverAlarms[i])])

\* GET /alarms is answered with the list as the server holds it now.
ServerGetAlarms(p) ==
    /\ ~p.answered
    /\ polls' = (polls \ {p}) \cup
                {[at |-> p.at, currentHHMM |-> p.currentHHMM, answered |-> TRUE,
                  response |-> [status |-> 200, body |-> JsonBody(AlarmList)]]}
    /\ ev' = Event("serverGetAlarms", "", NoPut, FALSE, NoArg)
    /\ UNCHANGED <<access_token, currentAlarm, serverAlarms, clock, ticks, acks, trigCount, trigIds, served>>
    /\ StayOnPage
    /\ UNCHANGED pureVars

\* Answers to GET /alarms that carry no list: a body that is no array, failures.
NoListResponses ==
    { [status |-> 200, body |-> JsonBody(JObj([message |-> JStr("ok")]))],
      [status |-> 500, body |-> Unparsable] }

\* checkMedicationAlarms after its await, given the response fetch resolved with.
AfterAlarmsFetched(p, response) ==
    LET result == ApiRequest(response)
        isList == ~result.threw /\ result.value.type = "array"
        due == IF isList THEN FindDue(result.value.items, p.currentHHMM) ELSE 0
        seen == [at |-> p.at, response |-> response]
    IN  /\ IF due # 0
          THEN /\ currentAlarm' = JSONStringify(result.value.items[due])
               /\ Navigate
               /\ trigCount' = trigCount + 1
               /\ trigIds' = trigIds \cup {result.value.items[due].f.id}
               /\ ev' = Event("pollResumes", "alarm.html", NoPut, FALSE, seen)
          ELSE /\ polls' = polls \ {p}
               /\ ev' = Event("pollResumes", "", NoPut, FALSE, seen)
               /\ UNCHANGED <<currentAlarm, acks, trigCount, trigIds>>
               /\ StayOnPage
        /\ served' = IF isList /\ p.at \div 60 = clock \div 60 THEN served + 1 ELSE served

\* checkMedicationAlarms resumes with the list the server sent.
PollResumes(p) ==
    /\ p.answered
    /\ AfterAlarmsFetched(p, p.response)
    /\ UNCHANGED <<access_token, serverAlarms, clock, ticks>>
    /\ UNCHANGED pureVars

\* checkMedicationAlarms resumes with an answer that carries no list.
PollFails(p) ==
    /\ ~p.answered
    /\ \E r \in NoListResponses : AfterAlarmsFetched(p, r)
    /\ UNCHANGED <<access_token, serverAlarms, clock, ticks>>
    /\ UNCHANGED pureVars

\* playAlarmSound without its guard.
NeverAlreadyPlaying == FALSE

\* if (isAlarmPlaying) return;
AlreadyPlaying == isAlarmPlaying

\* playAlarmSound(): initAudioContext() (with resume() of a suspended context, which
\* changes nothing kept here), the guard, the first scheduleBeeps(), setInterval
PlayAlarmSound ==
    /\ audioContext' = TRUE
    /\ IF AlreadyPlaying
         THEN /\ UNCHANGED <<isAlarmPlaying, alarmInterval, timers>>
              /\ ev' = Event("playAlarmSound", "", NoPut, FALSE, NoArg)
         ELSE /\ alarmInterval < MaxTimers
              /\ isAlarmPlaying' = TRUE
              /\ alarmInterval' = alarmInterval + 1
              /\ timers' = timers \cup {alarmInterval + 1}
              /\ ev' = Event("playAlarmSound", "", NoPut, TRUE, NoArg)
    /\ UNCHANGED <<access_token, currentAlarm, serverAlarms, clock, ticks, polls,
                   acks, trigCount, trigIds, served>>
    /\ UNCHANGED pureVars

\* The callback of setInterval(..., 3000): if (isAlarmPlaying) scheduleBeeps()
AlarmIntervalFires(t) ==
    /\ t \in timers
    /\ ev' = Event("alarmIntervalFires", "", NoPut, isAlarmPlaying, NoArg)
    /\ UNCHANGED <<access_token, currentAlarm, serverAlarms, clock, ticks, polls, acks,
                   trigCount, trigIds, served>>
    /\ StayOnPage
    /\ UNCHANGED pureVars

\* IssuesUpdate without the test of the session token.
IssuesUpdateWithoutToken ==
    /\ currentAlarm # NoItem
    /\ JSONParses(currentAlarm)
    /\ Truthy(JSONParse(currentAlarm))
    /\ JSONParse(currentAlarm).type = "object"
    /\ "id" \in DOMAIN JSONParse(currentAlarm).f

\* updateCurrentAlarmStatus up to its await: whether it issues the PUT
IssuesUpdate ==
    /\ currentAlarm # NoItem
    /\ JSONParses(currentAlarm)
    /\ Truthy(JSONParse(currentAlarm))
    /\ JSONParse(currentAlarm).type = "object"
    /\ "id" \in DOMAIN JSONParse(currentAlarm).f
    /\ GetAccessToken

\* StopAudio that clears the flag and leaves the interval registered.
StopAudioFlagOnly ==
    /\ isAlarmPlaying' = FALSE
    /\ UNCHANGED <<timers, alarmInterval, audioContext>>

\* Both acknowledgements sending 'taken'.
AlwaysTaken(op) == "taken"

\* The status each acknowledgement passes to updateCurrentAlarmStatus.
NewStatus(op) == IF op = "take" THEN "taken" ELSE "snoozed"

\* isAlarmPlaying = false; if (alarmInterval) clearInterval(alarmInterval);
StopAudio ==
    /\ isAlarmPlaying' = FALSE
    /\ timers' = timers \ {alarmInterval}
    /\ UNCHANGED <<alarmInterval, audioContext>>

\* stopAlarmAndRedirect() with the redirect not waiting for the status update.
StopAlarmAndRedirectNoAwait ==
    /\ IF IssuesUpdate
         THEN /\ Cardinality(acks) < MaxAcks
              /\ Navigate
              /\ ev' = Event("stopAlarmAndRedirect", "dashboard.html",
                             Put(JSONParse(currentAlarm).f.id, NewStatus("take")), FALSE, NoArg)
         ELSE /\ Navigate
              /\ ev' = Event("stopAlarmAndRedirect", "dashboard.html", NoPut, FALSE, NoArg)
    /\ UNCHANGED <<access_token, currentAlarm, serverAlarms, clock, ticks, trigCount, trigIds, served>>
    /\ UNCHANGED pureVars

\* stopAlarmAndRedirect() up to its await, and through to its end when
\* updateCurrentAlarmStatus returns without a request.
StopAlarmAndRedirect ==
    /\ IF IssuesUpdate
         THEN /\ Cardinality(acks) < MaxAcks
              /\ StopAudio
              /\ acks' = acks \cup {[op |-> "take", id |-> JSONParse(currentAlarm).f.id,
                                     status |-> NewStatus("take"), answered |-> FALSE]}
              /\ ev' = Event("stopAlarmAndRedirect", "",
                             Put(JSONParse(currentAlarm).f.id, NewStatus("take")), FALSE, NoArg)
              /\ UNCHANGED polls
         ELSE /\ Navigate
              /\ ev' = Event("stopAlarmAndRedirect", "dashboard.html", NoPut, FALSE, NoArg)
    /\ UNCHANGED <<access_token, currentAlarm, serverAlarms, clock, ticks, trigCount, trigIds, served>>
    /\ UNCHANGED pureVars

\* stopAlarmOnly()
StopAlarmOnly ==
    /\ StopAudio
    /\ IF IssuesUpdate
         THEN /\ Cardinality(acks) < MaxAcks
              /\ acks' = acks \cup {[op |-> "snooze", id |-> JSONParse(currentAlarm).f.id,
                                     status |-> NewStatus("snooze"), answered |-> FALSE]}
              /\ ev' = Event("stopAlarmOnly", "",
                             Put(JSONParse(currentAlarm).f.id, NewStatus("snooze")), FALSE, NoArg)
         ELSE /\ acks' = acks
              /\ ev' = Event("stopAlarmOnly", "", NoPut, FALSE, NoArg)
    /\ UNCHANGED <<access_token, currentAlarm, serverAlarms, clock, ticks, polls,
                   trigCount, trigIds, served>>
    /\ UNCHANGED pureVars

\* PUT /alarms/{id} {status} is answered with the updated record.
ServerPutAlarm(a) ==
    /\ ~a.answered
    /\ \E i \in 1..Len(serverAlarms) :
          /\ serverAlarms[i].id = a.id
          /\ LET updated == AlarmWith(a.id, serverAlarms[i].scheduled_time, a.status)
             IN  /\ serverAlarms' = [serverAlarms EXCEPT ![i] = updated]
                 /\ acks' = (acks \ {a}) \cup
                      {[op |-> a.op, id |-> a.id, status |-> a.status, answered |-> TRUE,
                        response |-> [status |-> 200, body |-> JsonBody(JObj(updated))]]}
    /\ ev' = Event("serverPutAlarm", "", NoPut, FALSE, NoArg)
    /\ UNCHANGED <<access_token, currentAlarm, clock, ticks, polls, trigCount, trigIds, served>>
    /\ StayOnPage
    /\ UNCHANGED pureVars

\* Answers to the PUT that report a failure.
UpdateFailures ==
    { [status |-> 500, body |-> JsonBody(JObj([detail |-> JStr("Update failed")]))] }

\* AfterUpdate with the redirect inside the try block: a failure skips it.
AfterUpdateRedirectInTry(a, result, op) ==
    /\ currentAlarm' = IF result.threw THEN currentAlarm ELSE JSONStringify(result.value)
    /\ IF a.op = "take" /\ ~result.threw
         THEN /\ Navigate
              /\ ev' = Event(op, "dashboard.html", NoPut, FALSE, a)
         ELSE /\ acks' = acks \ {a}
              /\ ev' = Event(op, "", NoPut, FALSE, a)
              /\ UNCHANGED polls
              /\ StayOnPage

\* updateCurrentAlarmStatus after its await, then its caller after its own.
AfterUpdate(a, result, op) ==
    /\ currentAlarm' = IF result.threw THEN currentAlarm ELSE JSONStringify(result.value)
    /\ IF a.op = "take"
         THEN /\ Navigate
              /\ ev' = Event(op, "dashboard.html", NoPut, FALSE, a)
         ELSE /\ acks' = acks \ {a}
              /\ ev' = Event(op, "", NoPut, FALSE, a)
              /\ UNCHANGED polls
              /\ StayOnPage

\* The update succeeded.
UpdateResumes(a) ==
    /\ a.answered
    /\ AfterUpdate(a, ApiRequest(a.response), "updateResumes")
    /\ UNCHANGED <<access_token, serverAlarms, clock, ticks, trigCount, trigIds, served>>
    /\ UNCHANGED pureVars

\* The update failed: apiRequest throws and the catch clause logs it.
UpdateFails(a) ==
    /\ ~a.answered
    /\ \E r \in UpdateFailures : AfterUpdate(a, ApiRequest(r), "updateFails")
    /\ UNCHANGED <<access_token, serverAlarms, clock, ticks, trigCount, trigIds, served>>
    /\ UNCHANGED pureVars

\* 08:00:40: the polls that follow fall in the minutes 08:00 and 08:01.
StartClocks == {8 * 3600 + 0 * 60 + 40}

InitialAlarmLists ==
    { <<Alarm(1, T0800), AlarmWith(2, T0801, "upcoming")>>,
      <<AlarmWith(1, T0801, "upcoming"), Alarm(2, T0801)>>,
      <<AlarmWith(1, T0800, "upcoming"), Alarm(2, T0800)>>,
      <<AlarmWith(1, T0800, "taken"), AlarmWith(2, T0801, "snoozed")>>,
      <<AlarmWith(1, T801, "upcoming"), AlarmWith(2, T0801, "missed")>> }

InitialCurrentAlarms ==
    { NoItem, GarbageText, JSONStringify(JNull),
      JSONStringify(JObj([scheduled_time |-> T0800, status |-> "upcoming"])),
      JSONStringify(JObj(AlarmWith(1, T0800, "upcoming"))) }

InitAlarm ==
    /\ access_token \in BOOLEAN
    /\ currentAlarm \in InitialCurrentAlarms
    /\ serverAlarms \in InitialAlarmLists
    /\ (~access_token => serverAlarms[1] = Alarm(1, T0800))
    \* two alarms due at 08:00 are met on a fresh browser, before any alarm has rung
    /\ (serverAlarms[2] = Alarm(2, T0800) => currentAlarm = NoItem)
    /\ clock \in StartClocks
    /\ ticks = 0
    /\ polls = {}
    /\ audioContext = FALSE
    /\ isAlarmPlaying = FALSE
    /\ alarmInterval = 0
    /\ timers = {}
    /\ acks = {}
    /\ ev = Event("load", "", NoPut, FALSE, NoArg)
    /\ trigCount = 0
    /\ trigIds = {}
    /\ served = 0

NextAlarm ==
    \/ CheckMedicationAlarms
    \/ \E p \in polls : ServerGetAlarms(p)
    \/ \E p \in polls : PollResumes(p)
    \/ \E p \in polls : PollFails(p)
    \/ PlayAlarmSound
    \/ \E t \in timers : AlarmIntervalFires(t)
    \/ StopAlarmAndRedirect
    \/ StopAlarmOnly
    \/ \E a \in acks : ServerPutAlarm(a)
    \/ \E a \in acks : UpdateResumes(a)
    \/ \E a \in acks : UpdateFails(a)

IdleApi == apiIn = NoArg /\ apiOut = NoArg
IdleFmt == fmtIn = NoArg /\ fmtOut = <<>>
IdleCal ==
    /\ today = NoArg /\ currentDate = NoArg /\ selectedDate = NoArg
    /\ monthHeader = NoArg /\ grid = <<>> /\ schedule = <<>> /\ calOp = "none"
IdleAlarm ==
    /\ access_token = FALSE /\ currentAlarm = NoItem /\ serverAlarms = <<>>
    /\ clock = 0 /\ ticks = 0 /\ polls = {} /\ audioContext = FALSE
    /\ isAlarmPlaying = FALSE /\ alarmInterval = 0 /\ timers = {} /\ acks = {}
    /\ ev = NoArg /\ trigCount = 0 /\ trigIds = {} /\ served = 0

Init == InitAlarm /\ IdleApi /\ IdleFmt /\ IdleCal
Next == NextAlarm
Spec == Init /\ [][Next]_vars

----------------------------------------------------------------------------
(* Properties of the alarm poller and the audio alerter *)

\* n as two decimal digits
TwoDigits(n) == <<Digits[(n \div 10) + 1], Digits[(n % 10) + 1]>>

\* The wall-clock minute at time t, written HH:MM
WallClockHHMM(t) == TwoDigits(Hours(t)) \o <<":">> \o TwoDigits(Minutes(t))

UnsetOrUpcoming(alarm) == "status" \notin DOMAIN alarm \/ alarm.status = "upcoming"

\* The last step was a poll that received an alarm list.
PollReceivedList ==
    /\ ev.op = "pollResumes"
    /\ ev.arg.response.status = 200
    /\ ev.arg.response.body.parsable
    /\ ev.arg.response.body.json.type = "array"

\* The places of the list the last poll received whose alarm was due when it started.
DueInReceivedList ==
    LET list == ev.arg.response.body.json.items
    IN  {i \in 1..Len(list) : /\ list[i].f.scheduled_time = WallClockHHMM(ev.arg.at)
                              /\ UnsetOrUpcoming(list[i].f)}

Triggered == ev.op = "pollResumes" /\ ev.nav = "alarm.html"

\* C1: within one wall-clock minute the poller makes the idle->ringing transition
\* exactly once: a poll that receives a list with a due alarm in that minute
\* leaves the count at one or more, and the count never exceeds one.
C1_ExactlyOncePerMinute ==
    /\ trigCount <= 1
    /\ (PollReceivedList /\ DueInReceivedList # {}
            /\ ev.arg.at \div 60 = clock \div 60) => trigCount >= 1

\* C2: a poll that receives an alarm list triggers the alarm (stores the alarm as
\* currentAlarm, navigates to alarm.html) if and only if the list holds an alarm
\* scheduled at the HH:MM the poll read and with status unset or "upcoming"; the
\* alarm stored is such an alarm, never one "taken" or "snoozed".
C2_TriggerIffDue ==
    PollReceivedList =>
        /\ Triggered <=> DueInReceivedList # {}
        /\ Triggered =>
              \E i \in DueInReceivedList :
                  /\ currentAlarm = JSONStringify(ev.arg.response.body.json.items[i])
                  /\ \/ "status" \notin DOMAIN JSONParse(currentAlarm).f
                     \/ JSONParse(currentAlarm).f.status \notin {"taken", "snoozed"}

\* A poll received a list of two alarms of which the second alone was due, and triggered.
C2_Witness ==
    /\ PollReceivedList
    /\ Triggered
    /\ DueInReceivedList = {2}

StopOps == {"stopAlarmAndRedirect", "stopAlarmOnly"}

\* C4: a stop leaves isAlarmPlaying false and no beep schedule registered, and
\* from then until the next playAlarmSound no step produces tones.
C4_NoTonesAfterStop ==
    [][ /\ (ev'.op \in StopOps) => (~isAlarmPlaying' /\ timers' = {})
        /\ (~isAlarmPlaying /\ ev'.op # "playAlarmSound") => ~ev'.beep ]_vars

\* A playing alarm was stopped by stopAlarmOnly.
C4_Witness ==
    /\ ev.op = "stopAlarmOnly"
    /\ alarmInterval # 0
    /\ ~isAlarmPlaying
    /\ timers = {}

\* The stored current alarm is a record with an id.
StoredAlarmHasId ==
    /\ currentAlarm.item = "json"
    /\ currentAlarm.v.type = "object"
    /\ "id" \in DOMAIN currentAlarm.v.f

UpdateDoneOps == {"updateResumes", "updateFails"}

\* C5: with a stored alarm that has an id and a session token, "take" issues
\* PUT {status: "taken"} for that id and navigates to the dashboard once the
\* update has settled; "snooze" issues PUT {status: "snoozed"} for that id and
\* navigates nowhere, neither at the click nor once the update has settled.
C5_TakeAndSnooze ==
    [][ /\ (ev'.op = "stopAlarmAndRedirect" /\ StoredAlarmHasId /\ access_token) =>
              ev'.put = Put(currentAlarm.v.f.id, "taken")
        /\ (ev'.op \in UpdateDoneOps /\ ev'.arg.op = "take") =>
              (ev'.arg.status = "taken" /\ ev'.nav = "dashboard.html")
        /\ (ev'.op = "stopAlarmOnly" /\ StoredAlarmHasId /\ access_token) =>
              (ev'.put = Put(currentAlarm.v.f.id, "snoozed") /\ ev'.nav = "")
        /\ (ev'.op \in UpdateDoneOps /\ ev'.arg.op = "snooze") =>
              (ev'.arg.status = "snoozed" /\ ev'.nav = "") ]_vars

\* The update of a "take" succeeded and the page went to the dashboard.
C5_Witness ==
    /\ ev.op = "updateResumes"
    /\ ev.arg.op = "take"
    /\ ev.arg.status = "taken"
    /\ ev.nav = "dashboard.html"

\* C6: with no stored alarm, a stored record that has no id or does not parse,
\* or no session token, "take" and "snooze" issue no update request and leave
\* the stored current alarm as it is.
C6_AcknowledgeNoOp ==
    [][ (ev'.op \in StopOps /\ ~(StoredAlarmHasId /\ access_token)) =>
            /\ ~ev'.put.issued
            /\ acks' \subseteq acks
            /\ currentAlarm' = currentAlarm ]_vars

\* An acknowledgement of a stored alarm with an id was made without a session token.
C6_Witness ==
    /\ ev.op \in StopOps
    /\ StoredAlarmHasId
    /\ ~access_token
    /\ ~ev.put.issued

\* C7: when the status update fails, no request is issued again, the audio is
\* not started again, the stored current alarm is not modified, and "take"
\* still navigates to the dashboard.
C7_UpdateFailureSwallowed ==
    [][ (ev'.op = "updateFails") =>
            /\ ~ev'.put.issued
            /\ acks' \subseteq (acks \ {ev'.arg})
            /\ (isAlarmPlaying' => isAlarmPlaying)
            /\ timers' \subseteq timers
            /\ ~ev'.beep
            /\ currentAlarm' = currentAlarm
            /\ (ev'.arg.op = "take" => ev'.nav = "dashboard.html") ]_vars

\* The update of a "take" failed and the page went to the dashboard.
C7_Witness ==
    /\ ev.op = "updateFails"
    /\ ev.arg.op = "take"
    /\ ev.nav = "dashboard.html"
    /\ StoredAlarmHasId

\* C11: both acknowledge paths keep their order. The step that issues the status
\* update is a stop step that has already cleared the playing flag and the beep
\* interval and that navigates nowhere, so while the update is in flight the audio
\* is stopped and the page is still the alert view. The dashboard is navigated
\* to only by a step that settles a "take" update (response received, or the
\* request failed), which takes that update out of flight, or by a "take" that
\* issued no request at all.
C11_AcknowledgeOrder ==
    [][ /\ ev'.put.issued =>
              /\ ev'.op \in StopOps
              /\ ~isAlarmPlaying' /\ timers' = {}
              /\ ev'.nav = ""
              /\ \E a \in acks' : /\ ~a.answered
                                  /\ a.id = ev'.put.id /\ a.status = ev'.put.status
        /\ ev'.nav = "dashboard.html" =>
              \/ /\ ev'.op \in UpdateDoneOps
                 /\ ev'.arg \in acks /\ ev'.arg.op = "take"
                 /\ ev'.op = "updateResumes" => ev'.arg.answered
                 /\ ev'.arg \notin acks'
              \/ /\ ev'.op = "stopAlarmAndRedirect"
                 /\ ~ev'.put.issued
                 /\ ~(StoredAlarmHasId /\ access_token) ]_vars

\* A ringing alarm was acknowledged with "take": the audio is stopped, the update
\* is in flight and the page has not been left.
C11_Witness ==
    /\ ev.op = "stopAlarmAndRedirect"
    /\ ev.put.issued
    /\ ev.nav = ""
    /\ alarmInterval > 0 /\ ~isAlarmPlaying /\ timers = {}
    /\ \E a \in acks : a.op = "take" /\ ~a.answered

\* The alarm the API serves under this id has been acknowledged: its status is
\* "taken" or "snoozed".
AcknowledgedOnServer(id) ==
    \E i \in 1..Len(serverAlarms) :
        /\ serverAlarms[i].id = id
        /\ "status" \in DOMAIN serverAlarms[i]
        /\ serverAlarms[i].status \in {"taken", "snoozed"}

\* C12: once the status update of a "take" or "snooze" for an alarm has succeeded,
\* no poll triggers that alarm again: a poll never writes currentAlarm and
\* navigates to the alert view for an alarm that the API already holds as taken
\* or snoozed, whenever that poll's request was issued.
C12_NoStaleRetrigger ==
    Triggered => ~AcknowledgedOnServer(currentAlarm.v.f.id)

\* The polls started since the clock entered this minute: one every PollPeriodSec
\* seconds, the first of them PollPeriodSec after the page was loaded.
PollsStartedThisMinute ==
    LET sinceMinuteBegan == ((clock % 60) \div PollPeriodSec) + 1
    IN  IF ticks < sinceMinuteBegan THEN ticks ELSE sinceMinuteBegan

\* The alarm has been due throughout the minute that is ending and is still
\* unacknowledged, and every poll of that minute resumed with the alarm list.
DueAndServed(alarm) ==
    /\ access_token
    /\ alarm.scheduled_time = WallClockHHMM(clock)
    /\ UnsetOrUpcoming(alarm)
    /\ PollsStartedThisMinute >= 1
    /\ served = PollsStartedThisMinute

\* C13: every alarm that is due while a session token exists and the polls succeed
\* triggers the alarm workflow for that alarm, also when several alarms are due in
\* the same minute: when the clock leaves a minute all of whose polls received
\* the list, each alarm that was due in that minute and is still unset or
\* "upcoming" has triggered during the minute.
C13_EveryDueAlarmTriggers ==
    [][ (ev'.op = "checkMedicationAlarms" /\ Minutes(clock') # Minutes(clock)) =>
            \A i \in 1..Len(serverAlarms) :
                DueAndServed(serverAlarms[i]) => serverAlarms[i].id \in trigIds ]_vars

----------------------------------------------------------------------------
(* apiRequest, on its own: every response fetch may resolve with *)

DetailEntries ==
    { JObj([msg |-> JStr("x")]), JObj([msg |-> JStr("y")]), JStr("z") }

RECURSIVE SeqsUpTo(_, _)
SeqsUpTo(S, n) ==
    IF n = 0 THEN {<<>>}
    ELSE SeqsUpTo(S, n - 1) \cup
         {Append(q, e) : q \in {r \in SeqsUpTo(S, n - 1) : Len(r) = n - 1}, e \in S}

Bodies ==
    { Unparsable, JsonBody(JNull), JsonBody(JStr("ok")),
      JsonBody(JObj([id |-> 1])),
      JsonBody(JArr(<<JObj([id |-> 1])>>)),
      JsonBody(JObj([detail |-> JNull])),
      JsonBody(JObj([detail |-> JStr("")])),
      JsonBody(JObj([detail |-> JStr("Not authenticated")])) }
    \cup { JsonBody(JObj([detail |-> JArr(q)])) : q \in SeqsUpTo(DetailEntries, MaxDetail) }

Statuses == {200, 201, 204, 400, 401, 404, 422, 500}

InitApi ==
    /\ apiIn \in [status : Statuses, body : Bodies]
    /\ apiOut = NoArg
    /\ IdleAlarm /\ IdleFmt /\ IdleCal

\* apiRequest settles once fetch has resolved with the response apiIn.
ApiRequestSettles ==
    /\ apiOut = NoArg
    /\ apiOut' = ApiRequest(apiIn)
    /\ UNCHANGED <<apiIn, alarmVars, fmtVars, calVars>>

NextApi == ApiRequestSettles
SpecApi == InitApi /\ [][NextApi]_vars

\* The body is an object with a detail that is neither null nor empty.
HasDetail(body) ==
    /\ body.parsable
    /\ body.json.type = "object"
    /\ "detail" \in DOMAIN body.json.f
    /\ body.json.f.detail \notin {JNull, JStr("")}

HasMsg(entry) == entry.type = "object" /\ "msg" \in DOMAIN entry.f

\* The msg fields of the entries, each after the first preceded by ", "
RECURSIVE MsgsJoined(_)
MsgsJoined(entries) ==
    IF entries = <<>> THEN ""
    ELSE LET n == Len(entries)
             last == entries[n].f.msg.s
         IN  IF n = 1 THEN last ELSE MsgsJoined(SubSeq(entries, 1, n - 1)) \o ", " \o last

\* C8: a non-success status always fails, with the detail entries' msg fields
\* joined by ", " when detail is a list, the detail string when it is a string,
\* and "Request failed with status N" when the body is unparsable or has no
\* detail; a 204 returns null; any other success returns the parsed JSON body.
C8_ApiRequestOutcome ==
    apiOut # NoArg =>
        LET status == apiIn.status
            body == apiIn.body
            success == status \in 200..299
        IN  /\ ~success => apiOut.threw
            /\ (~success /\ ~HasDetail(body)) =>
                   apiOut.message = "Request failed with status " \o ToString(status)
            /\ (~success /\ HasDetail(body) /\ body.json.f.detail.type = "string") =>
                   apiOut.message = body.json.f.detail.s
            /\ (~success /\ HasDetail(body) /\ body.json.f.detail.type = "array"
                    /\ \A i \in 1..Len(body.json.f.detail.items) :
                           HasMsg(body.json.f.detail.items[i])) =>
                   apiOut.message = MsgsJoined(body.json.f.detail.items)
            /\ status = 204 => apiOut = Returned(JNull)
            /\ (success /\ status # 204 /\ body.parsable) => apiOut = Returned(body.json)

\* A 422 whose detail is [{msg: "x"}, {msg: "y"}] failed with the message "x, y".
C8_Witness ==
    /\ apiIn = [status |-> 422,
                body |-> JsonBody(JObj([detail |->
                            JArr(<<JObj([msg |-> JStr("x")]), JObj([msg |-> JStr("y")])>>)]))]
    /\ apiOut = Threw("x, y")

----------------------------------------------------------------------------
(* formatTime *)

Colon == ":"

\* The index of the first ':' of s at or after place i, Len(s) + 1 when there is none
RECURSIVE IndexOfColon(_, _)
IndexOfColon(s, i) ==
    IF i > Len(s) THEN Len(s) + 1
    ELSE IF s[i] = Colon THEN i ELSE IndexOfColon(s, i + 1)

\* timeStr.split(':'), its first two parts; a missing part is undefined
SplitTime(s) ==
    LET c1 == IndexOfColon(s, 1)
        c2 == IndexOfColon(s, c1 + 1)
    IN  [hour |-> <<SubSeq(s, 1, c1 - 1)>>,
         minute |-> IF c1 > Len(s) THEN <<>> ELSE <<SubSeq(s, c1 + 1, c2 - 1)>>]

DigitValue(c) == CHOOSE d \in 0..9 : Digits[d + 1] = c
IsDigit(c) == \E d \in 0..9 : Digits[d + 1] = c

\* The value of the digits of s from place i on, up to the first non-digit
RECURSIVE DigitsValue(_, _, _)
DigitsValue(s, i, acc) ==
    IF i > Len(s) \/ ~IsDigit(s[i]) THEN acc
    ELSE DigitsValue(s, i + 1, 10 * acc + DigitValue(s[i]))

\* parseInt(part, 10) for a part without sign or leading blanks: NaN when the
\* part is undefined or does not start with a digit
ParseInt(part) ==
    IF part = <<>> \/ Len(part[1]) = 0 \/ ~IsDigit(part[1][1])
    THEN [nan |-> TRUE, n |-> 0]
    ELSE [nan |-> FALSE, n |-> DigitsValue(part[1], 1, 0)]

NaNText == <<"N", "a", "N">>

\* h % 12, without the fallback to 12
Hour12NoFallback(h) == h % 12

\* h % 12 || 12
Hour12(h) == IF h % 12 = 0 THEN 12 ELSE h % 12

\* formatTime(timeStr)
FormatTime(timeStr) ==
    IF Len(timeStr) = 0 THEN <<>>
    ELSE LET parts == SplitTime(timeStr)
             h == ParseInt(parts.hour)
             m == ParseInt(parts.minute)
             ampm == IF ~h.nan /\ h.n >= 12 THEN <<"P", "M">> ELSE <<"A", "M">>
             h12 == IF h.nan THEN 12 ELSE Hour12(h.n)
             mm == IF m.nan THEN NaNText
                   ELSE IF m.n < 10 THEN <<"0">> \o NumToString(m.n)
                   ELSE NumToString(m.n)
         IN  NumToString(h12) \o <<":">> \o mm \o <<" ">> \o ampm

\* Times of day as the time input writes them, and a few texts that are not.
TimeInputs ==
    { [text |-> PadStart2(NumToString(h)) \o <<":">> \o PadStart2(NumToString(m)),
       valid |-> TRUE, hour |-> h, minute |-> m] : h \in 0..23, m \in 0..59 }
    \cup { [text |-> t, valid |-> FALSE, hour |-> 0, minute |-> 0] :
             t \in {<<>>, <<"8", ":", "5">>, <<"7">>, <<"a", "b", ":", "c">>} }

InitFmt ==
    /\ fmtIn \in TimeInputs
    /\ fmtOut = <<>>
    /\ IdleAlarm /\ IdleApi /\ IdleCal

\* A renderer calls formatTime(med.time).
FormatTimeCalled ==
    /\ fmtOut = <<>>
    /\ fmtOut' = <<FormatTime(fmtIn.text)>>
    /\ UNCHANGED <<fmtIn, alarmVars, apiVars, calVars>>

NextFmt == FormatTimeCalled
SpecFmt == InitFmt /\ [][NextFmt]_vars

\* C9: for "HH:MM" with hour in 0..23 and minute in 0..59 formatTime gives
\* "H:MM AM/PM": the hour 12 for hours 0 and 12, else the hour less 12 from 13
\* on, in 1..12; the minute in two digits; AM exactly when hour < 12, else PM.
C9_FormatTime ==
    (fmtOut # <<>> /\ fmtIn.valid) =>
        LET h == fmtIn.hour
            shown == IF h = 0 \/ h = 12 THEN 12 ELSE IF h < 12 THEN h ELSE h - 12
            hourText == IF shown < 10 THEN <<Digits[shown + 1]>> ELSE TwoDigits(shown)
            suffix == IF h < 12 THEN <<"A", "M">> ELSE <<"P", "M">>
        IN  /\ shown \in 1..12
            /\ fmtOut[1] = hourText \o <<":">> \o TwoDigits(fmtIn.minute) \o <<" ">> \o suffix

\* "00:05" was formatted as "12:05 AM".
C9_Witness ==
    /\ fmtIn.valid /\ fmtIn.hour = 0 /\ fmtIn.minute = 5
    /\ fmtOut = << <<"1", "2", ":", "0", "5", " ", "A", "M">> >>

----------------------------------------------------------------------------
(* Date, as CalendarManager uses it: local dates without a time of day *)

\* DayFromYear(y) of ECMAScript: the day number of 1 January of year y
DayFromYear(y) ==
    365 * (y - 1970) + ((y - 1969) \div 4) - ((y - 1901) \div 100) + ((y - 1601) \div 400)

InLeapYear(y) == DayFromYear(y + 1) - DayFromYear(y) = 366

\* The day within its year on which month m (0..11; 12 for the year's end) starts
MonthStart(y, m) ==
    <<0, 31, 59, 90, 120, 151, 181, 212, 243, 273, 304, 334, 365>>[m + 1]
        + (IF m >= 2 /\ InLeapYear(y) THEN 1 ELSE 0)

\* MakeDay(year, month, date): month and date may lie outside their ranges
MakeDay(y, m, d) ==
    LET ym == y + (m \div 12)
        mn == m % 12
    IN  DayFromYear(ym) + MonthStart(ym, mn) + d - 1

YearFromDay(n) ==
    CHOOSE y \in (1970 + (n \div 366))..(1970 + (n \div 365)) :
        DayFromYear(y) <= n /\ n < DayFromYear(y + 1)

MonthFromDay(n) ==
    LET y == YearFromDay(n)
    IN  CHOOSE m \in 0..11 :
            MonthStart(y, m) <= n - DayFromYear(y) /\ n - DayFromYear(y) < MonthStart(y, m + 1)

DateFromDay(n) ==
    n - DayFromYear(YearFromDay(n)) - MonthStart(YearFromDay(n), MonthFromDay(n)) + 1

\* getDay(): 0 = Sunday; day number 0 (1 January 1970) was a Thursday
WeekDay(n) == (n + 4) % 7

\* new Date(year, month, date) as getFullYear(), getMonth(), getDate() read it
NewDate(y, m, d) ==
    LET n == MakeDay(y, m, d)
    IN  [year |-> YearFromDay(n), month |-> MonthFromDay(n), date |-> DateFromDay(n)]

DayNumber(dt) == MakeDay(dt.year, dt.month, dt.date)

----------------------------------------------------------------------------
(* CalendarManager *)

MonthNames ==
    <<"January", "February", "March", "April", "May", "June",
      "July", "August", "September", "October", "November", "December">>

\* grid.innerHTML = '' left out: the cells stay.
KeepGrid(cells) == cells

\* grid.innerHTML = ''
ClearGrid(cells) == <<>>

\* The previous month's padding cells
PaddingCells(firstDay, daysInPrevMonth) ==
    [k \in 1..firstDay |->
        [className |-> "cal-day other-month",
         text |-> daysInPrevMonth - firstDay + 1 + (k - 1),
         active |-> FALSE, hasMissed |-> FALSE]]

\* The current month's cells
DayCells(year, month, daysInMonth, selected, now) ==
    [i \in 1..daysInMonth |->
        [className |-> "cal-day",
         text |-> i,
         active |-> (i = selected.date /\ month = selected.month /\ year = selected.year),
         hasMissed |-> (MakeDay(year, month, i) <= DayNumber(now) /\ i % 5 = 0)]]

\* renderCalendar(): the header and the grid it leaves
RenderCalendar(cur, selected) ==
    LET year == cur.year
        month == cur.month
        firstDay == WeekDay(MakeDay(year, month, 1))
        daysInMonth == NewDate(year, month + 1, 0).date
        daysInPrevMonth == NewDate(year, month, 0).date
    IN  /\ monthHeader' = [name |-> MonthNames[month + 1], year |-> year]
        /\ grid' = ClearGrid(grid) \o PaddingCells(firstDay, daysInPrevMonth)
                       \o DayCells(year, month, daysInMonth, selected, today)

\* updateScheduleDisplay(date): the date of the header and the status of each of
\* the six entries of the list (the progress text, drawn at random, is not kept)
ScheduleFor(dt) ==
    [header |-> dt,
     items |-> [index \in 1..6 |->
                  IF index - 1 < 2 THEN "taken"
                  ELSE IF index - 1 = 2 /\ dt.date % 5 = 0 THEN "missed"
                  ELSE "upcoming"]]

\* Months from today's month to the month of dt
MonthsAway(dt) ==
    LET k == (dt.year * 12 + dt.month) - (today.year * 12 + today.month)
    IN  IF k < 0 THEN -k ELSE k

\* The dates a page may be loaded on
LoadDates ==
    { [year |-> 2024, month |-> 0, date |-> 31],
      [year |-> 2023, month |-> 11, date |-> 30],
      [year |-> 2025, month |-> 2, date |-> 15] }

\* The days of the displayed month a user clicks
ClickDays == {1, 5, 15, 28, 29, 30, 31}

InitCal ==
    /\ today \in LoadDates
    /\ currentDate = today
    /\ selectedDate = today
    /\ monthHeader = NoArg
    /\ grid = <<>>
    /\ schedule = NoArg
    /\ calOp = "load"
    /\ IdleAlarm /\ IdleApi /\ IdleFmt

\* CalendarManager.init(), on DOMContentLoaded
CalendarInit ==
    /\ calOp = "load"
    /\ RenderCalendar(currentDate, selectedDate)
    /\ schedule' = ScheduleFor(selectedDate)
    /\ calOp' = "init"
    /\ UNCHANGED <<today, currentDate, selectedDate, alarmVars, apiVars, fmtVars>>

\* changeMonth(delta): a click on one of the two navigation buttons
ChangeMonth(delta) ==
    /\ calOp # "load"
    /\ LET moved == NewDate(currentDate.year, currentDate.month + delta, currentDate.date)
       IN  /\ MonthsAway(moved) <= MaxMonthsAway
           /\ currentDate' = moved
           /\ RenderCalendar(moved, selectedDate)
    /\ calOp' = "changeMonth"
    /\ UNCHANGED <<today, selectedDate, schedule, alarmVars, apiVars, fmtVars>>

\* The click handler of the cell of day i of the month the grid shows
DayClicked(i) ==
    /\ calOp # "load"
    /\ \E k \in 1..Len(grid) : grid[k].className = "cal-day" /\ grid[k].text = i
    /\ LET picked == NewDate(currentDate.year, currentDate.month, i)
       IN  /\ selectedDate' = picked
           /\ RenderCalendar(currentDate, picked)
           /\ schedule' = ScheduleFor(picked)
    /\ calOp' = "dayClicked"
    /\ UNCHANGED <<today, currentDate, alarmVars, apiVars, fmtVars>>

NextCal ==
    \/ CalendarInit
    \/ \E delta \in {-1, 1} : ChangeMonth(delta)
    \/ \E i \in ClickDays : DayClicked(i)

SpecCal == InitCal /\ [][NextCal]_vars

\* The length of month m (0..11) of year y by the calendar's rule
MonthLength(y, m) ==
    IF m = 1
    THEN (IF y % 4 = 0 /\ (y % 100 # 0 \/ y % 400 = 0) THEN 29 ELSE 28)
    ELSE IF m \in {3, 5, 8, 10} THEN 30 ELSE 31

\* The day of the week (0 = Sunday) of the first of month m (0..11) of year y,
\* by Zeller's congruence
FirstDayOfWeek(y, m) ==
    LET zm == IF m < 2 THEN m + 13 ELSE m + 1
        zy == IF m < 2 THEN y - 1 ELSE y
        K == zy % 100
        J == zy \div 100
        h == (1 + ((13 * (zm + 1)) \div 5) + K + (K \div 4) + (J \div 4) + 5 * J) % 7
    IN  (h + 6) % 7

\* C10: the grid is firstDayOfWeek padding cells of the previous month, numbered
\* consecutively up to that month's last day, then daysInMonth cells of the
\* displayed month numbered 1..daysInMonth, and nothing else, after every render.
C10_CalendarGrid ==
    calOp \notin {"none", "load"} =>
        LET y == currentDate.year
            m == currentDate.month
            pad == FirstDayOfWeek(y, m)
            days == MonthLength(y, m)
            prevDays == IF m = 0 THEN MonthLength(y - 1, 11) ELSE MonthLength(y, m - 1)
        IN  /\ Len(grid) = pad + days
            /\ \A k \in 1..pad :
                  /\ grid[k].className = "cal-day other-month"
                  /\ grid[k].text = prevDays - pad + k
            /\ \A i \in 1..days :
                  /\ grid[pad + i].className = "cal-day"
                  /\ grid[pad + i].text = i

\* The grid was rendered again for a month that starts on a Saturday: six padding cells.
C10_Witness ==
    /\ calOp = "changeMonth"
    /\ Len(grid) > 31
    /\ grid[6].className = "cal-day other-month"
    /\ grid[7].className = "cal-day"

\* The number of the month date dt lies in, counted from January of year 0
DisplayedMonthNo(dt) == dt.year * 12 + dt.month

\* C14: from every state of the calendar, changeMonth(+1) displays exactly the
\* next calendar month and changeMonth(-1) exactly the previous one (so that +1
\* followed by -1 returns to the same year and month and no month is skipped).
C14_ChangeMonthByOne ==
    [][ \A delta \in {-1, 1} :
            ChangeMonth(delta) =>
                DisplayedMonthNo(currentDate') = DisplayedMonthNo(currentDate) + delta ]_vars
=============================================================================
